---- MODULE Spec2Model ----
(***************************************************************************)
(* A model of collapse-it, a URL shortener: the short_urls table behind    *)
(* extensions/database.py (Database), the shortening flow of               *)
(* extensions/shortened_url.py (generate_unique_short_code, ShortenedURL)  *)
(* and the redirect handler of app.py.                                     *)
(*                                                                         *)
(* Every SQL statement is one atomic step (each method commits at once and *)
(* no transaction spans two statements).  A shorten request is a process   *)
(* whose steps are its store calls; the Python between two store calls is  *)
(* local to the request and is folded into the step of the call before it. *)
(***************************************************************************)
EXTENDS Integers, Sequences, FiniteSets, TLC

\* ---------------------------------------------------------------- bounds
\* Concurrent request workers.
NumProcs == 2
\* Rows the table may hold (the code never deletes a row).
MaxRows == 2
\* The clock runs over 0..MaxTime.
MaxTime == 1
\* TTLs (minutes) a caller may pass are 1..MaxTtl.
MaxTtl == 1
\* Hex digits that occur in a digest: the first NumHex of 0..f.
NumHex == 2
\* The working URL of the generation loop is tracked up to this many
\* characters (the loop itself is not bounded).
MaxUrlLen == 2
\* The draws and the existence checks of one call that are recorded.
MaxDrawn == 3

\* ------------------------------------------------------ program constants
\* hashlib.blake2b(..., digest_size=5).hexdigest() has 10 characters.
DigestLen == 10
\* random.sample(range(len(hash_digest)), 5)
CodeLen == 5
\* insert_url returns -1 when the INSERT raised mysql.connector.Error.
InsertFailed == -1

\* ------------------------------------------------------------ value sets
Procs == 1..NumProcs
Times == 0..MaxTime
Ttls == 1..MaxTtl

\* Python's None for a str-typed value (Optional[str]); no URL or code of
\* the model is spelled like this.
None == "None"
\* Optional values of other types: NULL / None is the empty tuple.
NULL == << >>
Some(v) == << v >>

\* URLs a caller may pass: absent, empty, and two real ones.
Urls == {"a", "b"}
UrlInputs == Urls \cup {"", None}

VARIABLES
    table,       \* short_urls: the rows, in id order
    now,         \* the clock (datetime.now)
    pc,          \* pc[p]: where request p stands in shorten
    url,         \* url[p]: self.url of request p's ShortenedURL
    ttl,         \* ttl[p]: the ttl argument of shorten
    short_code,  \* short_code[p]: the local short_code of shorten
    gen_url,     \* gen_url[p]: the local url of generate_unique_short_code
    log,         \* log[p]: what logger.error recorded during p's call so far
    calls,       \* calls[p]: the store methods p's call has invoked so far
    drawn,       \* drawn[p]: the candidates generate_unique_short_code has
                 \* drawn in p's call, in order (the first MaxDrawn of them)
    checked,     \* checked[p]: what short_code_exists answered in p's
                 \* call, in order (the first MaxDrawn answers)
    prior,       \* the last shorten call that returned, while nothing but
                 \* its caller's next call has run since
    last         \* the operation the last step completed: what it was given,
                 \* what it returned or raised, what it logged

vars == << table, now, pc, url, ttl, short_code, gen_url, log, calls, drawn, checked, prior, last >>

\* What a step records in `last`: the operation it completed, the request
\* that ran it (0: a direct caller of the store or of the web handlers), its
\* argument (the URL of shorten, the short code of the others), what it
\* returned, the exception it raised ("" for none), the errors it logged and
\* the store methods it invoked.
Event(op, who, arg, ret, err, logged, called) ==
    [ op |-> op, who |-> who, arg |-> arg, ret |-> ret, err |-> err,
      log |-> logged, calls |-> called ]

\* A step inside a shorten call, which completes no operation.
Step == Event("step", 0, "", NULL, "", {}, {})

\* logger.error(...) of a store method called by method.
Logged(method, r) == IF r.err = "" THEN {} ELSE { << method, r.err >> }

\* ------------------------------------------------- code generation (pure)
HexDigits == << "0", "1", "2", "3", "4", "5", "6", "7",
                "8", "9", "a", "b", "c", "d", "e", "f" >>

\* A digest is DigestLen hex digits.  blake2b is a library function: the
\* model lets it return any digest of this family (one hex digit repeated),
\* so that two URLs may or may not share a candidate and the codes are few
\* enough for the table to hold them all.
Digests == { [i \in 1..DigestLen |-> HexDigits[k]] : k \in 1..NumHex }

\* hashlib.blake2b(url.encode(), digest_size=5).hexdigest(): the digests the
\* model allows for url.
blake2b(u) == Digests

\* random.sample(range(len(hash_digest)), 5): CodeLen distinct positions, in
\* the order drawn.
Samples ==
    { pos \in [1..CodeLen -> 1..DigestLen] :
        \A i, j \in 1..CodeLen : i # j => pos[i] # pos[j] }

RECURSIVE join(_)
\* "".join(chars)
join(chars) == IF chars = << >> THEN "" ELSE Head(chars) \o join(Tail(chars))

\* "".join([hash_digest[i] for i in short_code_positions])
CodeAt(hash_digest, pos) == join([i \in 1..CodeLen |-> hash_digest[pos[i]]])

\* The candidates one loop iteration can draw from hash_digest.
Candidates == [d \in Digests |-> { CodeAt(d, pos) : pos \in Samples }]

\* Every code the generation can produce.
Codes == UNION { Candidates[d] : d \in Digests }

\* url += "x" (the string is tracked up to MaxUrlLen characters).
Filler(u) == IF Len(u) < MaxUrlLen THEN u \o "x" ELSE u

\* --------------------------------------------- the store: Database methods
\* Each method runs one SQL statement and commits.  `ok` is whether the
\* statement reached the server and ran; when it did not, the statement
\* raises mysql.connector.Error, which every method catches and logs.  A
\* method's outcome is [table: the table afterwards, ret: what the method
\* returns, err: "" or the kind of error it logged].
Unavailable == "unavailable"
Duplicate == "duplicate"

\* CREATE TABLE short_urls: the columns of a row.  id is AUTO_INCREMENT.
\* created_at (DEFAULT CURRENT_TIMESTAMP) is left out: no statement of the
\* code writes or reads it.
Row(id, code, u, expires, active) ==
    [ id |-> id, short_code |-> code, original_url |-> u,
      expires_at |-> expires, is_active |-> active ]

\* WHERE short_code = %s
WithCode(tbl, code) == { i \in DOMAIN tbl : tbl[i].short_code = code }

\* WHERE original_url = %s
WithUrl(tbl, u) == { i \in DOMAIN tbl : tbl[i].original_url = u }

\* A short_code column without the UNIQUE declaration: no INSERT is rejected.
NotUnique(tbl, code) == FALSE

\* short_code VARCHAR(10) NOT NULL UNIQUE: the INSERT of a code some row
\* holds is rejected (IntegrityError, a mysql.connector.Error).
UniqueViolated(tbl, code) == WithCode(tbl, code) # {}

\* UPDATE short_urls SET <column> = value WHERE short_code = code
UpdateWhere(tbl, code, column, value) ==
    [ i \in DOMAIN tbl |->
        IF tbl[i].short_code = code THEN [tbl[i] EXCEPT ![column] = value]
        ELSE tbl[i] ]

\* cursor.rowcount after an UPDATE: the rows the statement changed (MySQL's
\* affected-rows count under the connector's default client flags).
rowcount(tbl, after) == Cardinality({ i \in DOMAIN tbl : tbl[i] # after[i] })

insert_url(tbl, code, u, expires, active, ok) ==
    IF ~ok THEN [ table |-> tbl, ret |-> InsertFailed, err |-> Unavailable ]
    ELSE IF UniqueViolated(tbl, code)
    THEN [ table |-> tbl, ret |-> InsertFailed, err |-> Duplicate ]
    ELSE [ table |-> Append(tbl, Row(Len(tbl) + 1, code, u, expires, active)),
           ret |-> Len(tbl) + 1, err |-> "" ]

update_url(tbl, code, new_url, ok) ==
    IF ~ok THEN [ table |-> tbl, ret |-> FALSE, err |-> Unavailable ]
    ELSE LET after == UpdateWhere(tbl, code, "original_url", new_url)
         IN  [ table |-> after, ret |-> rowcount(tbl, after) > 0, err |-> "" ]

\* DELETE FROM short_urls WHERE short_code = code, in place of the UPDATE of
\* deactivate_url.
delete_url(tbl, code, ok) ==
    IF ~ok THEN [ table |-> tbl, ret |-> FALSE, err |-> Unavailable ]
    ELSE [ table |-> SelectSeq(tbl, LAMBDA row : row.short_code # code),
           ret |-> WithCode(tbl, code) # {}, err |-> "" ]

deactivate_url(tbl, code, ok) ==
    IF ~ok THEN [ table |-> tbl, ret |-> FALSE, err |-> Unavailable ]
    ELSE LET after == UpdateWhere(tbl, code, "is_active", FALSE)
         IN  [ table |-> after, ret |-> rowcount(tbl, after) > 0, err |-> "" ]

extend_url(tbl, code, new_expiration, ok) ==
    IF ~ok THEN [ table |-> tbl, ret |-> FALSE, err |-> Unavailable ]
    ELSE LET after == UpdateWhere(tbl, code, "expires_at", new_expiration)
         IN  [ table |-> after, ret |-> rowcount(tbl, after) > 0, err |-> "" ]

\* The dictionary fetch_url builds from the selected columns.
UrlDetails(row) ==
    [ original_url |-> row.original_url, is_active |-> row.is_active,
      expires_at |-> row.expires_at ]

\* The SELECT of fetch_url without its WHERE clause: any stored row.
fetch_any(tbl, code, ok) ==
    IF ~ok \/ tbl = << >>
    THEN { [ table |-> tbl, ret |-> NULL, err |-> IF ok THEN "" ELSE Unavailable ] }
    ELSE { [ table |-> tbl, ret |-> Some(UrlDetails(tbl[i])), err |-> "" ] :
             i \in DOMAIN tbl }

\* SELECT original_url, is_active, expires_at ... WHERE short_code = %s;
\* fetchone().  The outcomes it can have (one, short_code being UNIQUE).
fetch_url(tbl, code, ok) ==
    IF ~ok THEN { [ table |-> tbl, ret |-> NULL, err |-> Unavailable ] }
    ELSE IF WithCode(tbl, code) = {}
    THEN { [ table |-> tbl, ret |-> NULL, err |-> "" ] }
    ELSE { [ table |-> tbl, ret |-> Some(UrlDetails(tbl[i])), err |-> "" ] :
             i \in WithCode(tbl, code) }

\* SELECT short_code ... WHERE original_url = %s; fetchone().  The statement
\* has no ORDER BY: when several rows hold the URL, any of them may be the
\* one fetched.
fetch_short_code(tbl, u, ok) ==
    IF ~ok THEN { [ table |-> tbl, ret |-> None, err |-> Unavailable ] }
    ELSE IF WithUrl(tbl, u) = {}
    THEN { [ table |-> tbl, ret |-> None, err |-> "" ] }
    ELSE { [ table |-> tbl, ret |-> tbl[i].short_code, err |-> "" ] :
             i \in WithUrl(tbl, u) }

\* An existence check that reports no code as stored.
never_exists(tbl, code, ok) ==
    [ table |-> tbl, ret |-> FALSE, err |-> IF ok THEN "" ELSE Unavailable ]

\* SELECT EXISTS(SELECT 1 FROM short_urls WHERE short_code = %s)
short_code_exists(tbl, code, ok) ==
    IF ~ok THEN [ table |-> tbl, ret |-> FALSE, err |-> Unavailable ]
    ELSE [ table |-> tbl, ret |-> WithCode(tbl, code) # {}, err |-> "" ]

\* ------------------------------------------------------------ the state
\* `x is None`, which the empty string passes, unlike `not x`.
IsNone(x) == x = None

\* `not x` for an Optional[str]
Falsy(x) == x \in { None, "" }

\* How many rows hold the URL.
CountUrl(tbl, u) == Cardinality(WithUrl(tbl, u))

Init ==
    /\ table = << >>
    /\ now = 0
    /\ pc = [p \in Procs |-> "idle"]
    /\ url = [p \in Procs |-> None]
    /\ ttl = [p \in Procs |-> 1]
    /\ short_code = [p \in Procs |-> ""]
    /\ gen_url = [p \in Procs |-> ""]
    /\ log = [p \in Procs |-> {}]
    /\ calls = [p \in Procs |-> {}]
    /\ drawn = [p \in Procs |-> << >>]
    /\ checked = [p \in Procs |-> << >>]
    /\ prior = NULL
    /\ last = Event("init", 0, "", NULL, "", {}, {})

\* A record of draws or answers with one more entry, while there is room.
Recorded(seq, x) == IF Len(seq) < MaxDrawn THEN Append(seq, x) ELSE seq

\* prior after a step of p (0: a direct caller) that completes no shorten
\* call: kept when the step belongs to the next call of prior's own caller.
Kept(p) == IF prior # NULL /\ prior[1].who = p THEN prior ELSE NULL

\* The request is over: its locals are gone.
Return(p) ==
    /\ pc' = [pc EXCEPT ![p] = "idle"]
    /\ url' = [url EXCEPT ![p] = None]
    /\ ttl' = [ttl EXCEPT ![p] = 1]
    /\ short_code' = [short_code EXCEPT ![p] = ""]
    /\ gen_url' = [gen_url EXCEPT ![p] = ""]
    /\ log' = [log EXCEPT ![p] = {}]
    /\ calls' = [calls EXCEPT ![p] = {}]
    /\ drawn' = [drawn EXCEPT ![p] = << >>]
    /\ checked' = [checked EXCEPT ![p] = << >>]

\* ------------------------------------------- ShortenedURL.shorten, by steps
\* ShortenedURL(config, url).shorten(ttl), up to and with its first store
\* call (ensure_tables, which the constructor runs, touches no row).
\* `connected`: whether Database.connect reached the server; when it did
\* not, cursor stays None and ensure_tables raises AttributeError out of
\* the constructor, so that shorten is never called.  Then
\* `if not self.url: raise ValueError`.  Then
\* short_code = self.database.fetch_short_code(self.url); when it is falsy,
\* generate_unique_short_code starts: the digest of the URL, and the first
\* pass through the loop body (short_code is still ""), which draws a
\* candidate, appends the filler and hashes again.
shorten(p, u, t, connected, ok) ==
    /\ pc[p] = "idle"
    /\ IF ~connected
       THEN /\ last' = Event("__init__", p, u, NULL, "AttributeError", {}, {})
            /\ prior' = NULL
            /\ UNCHANGED << pc, url, ttl, short_code, gen_url, log, calls, drawn, checked >>
       ELSE IF Falsy(u)
       THEN /\ last' = Event("shorten", p, u, NULL, "ValueError", {}, {})
            /\ prior' = NULL
            /\ UNCHANGED << pc, url, ttl, short_code, gen_url, log, calls, drawn, checked >>
       ELSE /\ url' = [url EXCEPT ![p] = u]
            /\ ttl' = [ttl EXCEPT ![p] = t]
            /\ \E r \in fetch_short_code(table, u, ok) :
                 /\ log' = [log EXCEPT ![p] = Logged("fetch_short_code", r)]
                 /\ calls' = [calls EXCEPT ![p] = { "fetch_short_code" }]
                 /\ IF Falsy(r.ret)
                    THEN \E hash_digest \in blake2b(u) :
                         \E candidate \in Candidates[hash_digest] :
                           /\ short_code' = [short_code EXCEPT ![p] = candidate]
                           /\ drawn' = [drawn EXCEPT ![p] = << candidate >>]
                           /\ gen_url' = [gen_url EXCEPT ![p] = Filler(u)]
                           /\ pc' = [pc EXCEPT ![p] = "exists"]
                    ELSE /\ short_code' = [short_code EXCEPT ![p] = r.ret]
                         /\ UNCHANGED << gen_url, drawn >>
                         /\ pc' = [pc EXCEPT ![p] = "extend"]
            /\ checked' = checked
            /\ prior' = Kept(p)
            /\ last' = Step
    /\ UNCHANGED << table, now >>

\* The loop of generate_unique_short_code: one evaluation of
\* `while not short_code or database.short_code_exists(short_code)` and,
\* when the code exists, one more pass through the body; otherwise the
\* function returns short_code.
generate_unique_short_code(p, ok) ==
    /\ pc[p] = "exists"
    /\ LET r == short_code_exists(table, short_code[p], ok)
       IN  /\ log' = [log EXCEPT ![p] = @ \cup Logged("short_code_exists", r)]
           /\ calls' = [calls EXCEPT ![p] = @ \cup { "short_code_exists" }]
           /\ checked' = [checked EXCEPT ![p] = Recorded(@, r.ret)]
           /\ IF r.ret
              THEN \E hash_digest \in blake2b(gen_url[p]) :
                   \E candidate \in Candidates[hash_digest] :
                     /\ short_code' = [short_code EXCEPT ![p] = candidate]
                     /\ drawn' = [drawn EXCEPT ![p] = Recorded(@, candidate)]
                     /\ gen_url' = [gen_url EXCEPT ![p] = Filler(gen_url[p])]
                     /\ pc' = pc
              ELSE /\ pc' = [pc EXCEPT ![p] = "insert"]
                   /\ UNCHANGED << short_code, gen_url, drawn >>
    /\ prior' = Kept(p)
    /\ last' = Step
    /\ UNCHANGED << table, now, url, ttl >>

\* What is remembered of a shorten call that returned: the caller, the URL
\* and the code.
Remember(p) == Some([ who |-> p, url |-> url[p], code |-> short_code[p] ])

\* self.database.insert_url(short_code, self.url, now + ttl); return
\* short_code.  The value insert_url returns is not looked at.
shorten_insert(p, ok) ==
    /\ pc[p] = "insert"
    /\ LET r == insert_url(table, short_code[p], url[p], Some(now + ttl[p]), TRUE, ok)
       IN  /\ Len(r.table) <= MaxRows
           /\ table' = r.table
           /\ last' = Event("shorten", p, url[p], short_code[p], "",
                            log[p] \cup Logged("insert_url", r),
                            calls[p] \cup { "insert_url" })
    /\ prior' = Remember(p)
    /\ Return(p)
    /\ now' = now

\* self.database.extend_url(short_code, now + ttl); return short_code.  The
\* value extend_url returns is not looked at.
shorten_extend(p, ok) ==
    /\ pc[p] = "extend"
    /\ LET r == extend_url(table, short_code[p], Some(now + ttl[p]), ok)
       IN  /\ table' = r.table
           /\ last' = Event("shorten", p, url[p], short_code[p], "",
                            log[p] \cup Logged("extend_url", r),
                            calls[p] \cup { "extend_url" })
    /\ prior' = Remember(p)
    /\ Return(p)
    /\ now' = now

\* --------------------------------------- direct callers of the store's API
\* Database.insert_url called with arguments of the caller's choosing.
call_insert_url(code, u, expires, active, ok) ==
    /\ LET r == insert_url(table, code, u, expires, active, ok)
       IN  /\ Len(r.table) <= MaxRows
           /\ table' = r.table
           /\ last' = Event("insert_url", 0, code, r.ret, "", Logged("insert_url", r), {})
    /\ prior' = NULL
    /\ UNCHANGED << now, pc, url, ttl, short_code, gen_url, log, calls, drawn, checked >>

call_update_url(code, new_url, ok) ==
    /\ LET r == update_url(table, code, new_url, ok)
       IN  /\ table' = r.table
           /\ last' = Event("update_url", 0, code, r.ret, "", Logged("update_url", r), {})
    /\ prior' = NULL
    /\ UNCHANGED << now, pc, url, ttl, short_code, gen_url, log, calls, drawn, checked >>

call_deactivate_url(code, ok) ==
    /\ LET r == deactivate_url(table, code, ok)
       IN  /\ table' = r.table
           /\ last' = Event("deactivate_url", 0, code, r.ret, "", Logged("deactivate_url", r), {})
    /\ prior' = NULL
    /\ UNCHANGED << now, pc, url, ttl, short_code, gen_url, log, calls, drawn, checked >>

call_extend_url(code, new_expiration, ok) ==
    /\ LET r == extend_url(table, code, new_expiration, ok)
       IN  /\ table' = r.table
           /\ last' = Event("extend_url", 0, code, r.ret, "", Logged("extend_url", r), {})
    /\ prior' = NULL
    /\ UNCHANGED << now, pc, url, ttl, short_code, gen_url, log, calls, drawn, checked >>

\* ShortenedURL(config).get_by_short_code(short_code): a passthrough to
\* fetch_url (when the constructor raised, the method is never called).
get_by_short_code(code, connected, ok) ==
    /\ IF ~connected
       THEN last' = Event("__init__", 0, code, NULL, "AttributeError", {}, {})
       ELSE \E r \in fetch_url(table, code, ok) :
              last' = Event("get_by_short_code", 0, code, r.ret, "", Logged("fetch_url", r), {})
    /\ prior' = NULL
    /\ UNCHANGED << table, now, pc, url, ttl, short_code, gen_url, log, calls, drawn, checked >>

\* The response of the web handler: a redirect to location, or an error.
Response(status, location) == [ status |-> status, location |-> location ]

\* app.redirect_to_original(short_code): 302 to the row's original_url
\* whenever get_by_short_code finds a row, 404 otherwise (500 when the
\* constructor raised).
redirect_to_original(code, connected, ok) ==
    /\ IF ~connected
       THEN last' = Event("redirect_to_original", 0, code, Response(500, None),
                          "AttributeError", {}, {})
       ELSE \E r \in fetch_url(table, code, ok) :
              LET url_info == r.ret
                  original_url == IF url_info # NULL THEN url_info[1].original_url ELSE None
              IN  last' = Event("redirect_to_original", 0, code,
                                IF original_url = None THEN Response(404, None)
                                ELSE Response(302, original_url),
                                "", Logged("fetch_url", r), {})
    /\ prior' = NULL
    /\ UNCHANGED << table, now, pc, url, ttl, short_code, gen_url, log, calls, drawn, checked >>

\* Time passes.
Tick ==
    /\ now < MaxTime
    /\ now' = now + 1
    /\ last' = Event("tick", 0, "", NULL, "", {}, {})
    /\ UNCHANGED << table, pc, url, ttl, short_code, gen_url, log, calls, drawn, checked, prior >>

\* -------------------------------------------------------- specifications
\* The steps of the shortening flow, for the requests of P; oks: the
\* outcomes a connection attempt or a statement may have (TRUE: it ran,
\* FALSE: mysql.connector.Error).
ShortenStep(P, oks) ==
    \E p \in P :
        \/ \E u \in UrlInputs, t \in Ttls, connected \in oks, ok \in oks :
             shorten(p, u, t, connected, ok)
        \/ \E ok \in oks : generate_unique_short_code(p, ok)
        \/ \E ok \in oks : shorten_insert(p, ok)
        \/ \E ok \in oks : shorten_extend(p, ok)

\* The store's writing methods, called directly.
StoreWrite(oks) ==
    \E code \in Codes, ok \in oks :
        \/ \E u \in Urls, active \in BOOLEAN :
             call_insert_url(code, u, Some(now), active, ok)
        \/ \E new_url \in Urls : call_update_url(code, new_url, ok)
        \/ call_deactivate_url(code, ok)
        \/ \E t \in Ttls : call_extend_url(code, Some(now + t), ok)

\* Resolution: get_by_short_code and the redirect handler.
StoreRead(oks) ==
    \E code \in Codes, ok \in oks, connected \in oks :
        \/ get_by_short_code(code, connected, ok)
        \/ redirect_to_original(code, connected, ok)

\* A shorten request running beside direct callers of the store's writing
\* methods.
Next == ShortenStep({1}, {TRUE}) \/ StoreWrite({TRUE}) \/ Tick

Spec == Init /\ [][Next]_vars

\* Concurrent shorten requests alone, on a store that never fails.
ShortenNext == ShortenStep(Procs, {TRUE}) \/ Tick

ShortenSpec == Init /\ [][ShortenNext]_vars

\* One caller's shorten requests, one after the other, on a store whose
\* connection and statements may fail.
FaultNext == ShortenStep({1}, BOOLEAN) \/ Tick

FaultSpec == Init /\ [][FaultNext]_vars

\* The store's methods and the handlers called directly, on a store whose
\* connection and statements may fail.
StoreNext == StoreWrite(BOOLEAN) \/ StoreRead(BOOLEAN) \/ Tick

StoreSpec == Init /\ [][StoreNext]_vars

\* One caller's shorten requests, one after the other, with no other writer,
\* on a store that never fails.
SeqNext == ShortenStep({1}, {TRUE}) \/ Tick

SeqSpec == Init /\ [][SeqNext]_vars

\* One caller's shorten requests beside deactivations, on a store whose
\* connection and statements may fail.
DeactNext ==
    \/ ShortenStep({1}, BOOLEAN)
    \/ \E code \in Codes, ok \in BOOLEAN : call_deactivate_url(code, ok)
    \/ Tick

DeactSpec == Init /\ [][DeactNext]_vars

\* A request that has started runs on: each request has a worker of its own
\* (weak fairness of its steps).  random.sample draws every sample with
\* positive probability: a loop that can draw a code no row holds again and
\* again does draw one (strong fairness of the draw of a free code).
Progress(p) ==
    \/ generate_unique_short_code(p, TRUE)
    \/ shorten_insert(p, TRUE)
    \/ shorten_extend(p, TRUE)

FreeDraw(p) ==
    /\ generate_unique_short_code(p, TRUE)
    /\ ~UniqueViolated(table, short_code'[p])

FairSpec ==
    /\ ShortenSpec
    /\ \A p \in Procs : WF_vars(Progress(p)) /\ SF_vars(FreeDraw(p))

\* ------------------------------------------------------------- the claims
\* The shorten call the last step completed by returning a code.
Returned == last.op = "shorten" /\ last.err = ""

\* C1: in every reachable state no two rows of short_urls hold the same
\* short_code.
C1_UniqueShortCode ==
    \A i, j \in DOMAIN table : i # j => table[i].short_code # table[j].short_code

\* C1, its case: the table holds two rows and the INSERT of a shorten
\* request has just been rejected as a duplicate.
C1_Witness ==
    /\ Len(table) = 2
    /\ last.op = "shorten"
    /\ << "insert_url", Duplicate >> \in last.log

\* C2: the code shorten returns has exactly 5 characters, and
\* get_by_short_code of it, right afterwards, returns a row whose
\* original_url is the URL that was shortened.
C2_ReturnedCodeResolves ==
    Returned =>
        /\ Len(last.ret) = CodeLen
        /\ \A r \in fetch_url(table, last.ret, TRUE) :
             r.ret # NULL /\ r.ret[1].original_url = last.arg

\* C3: when shorten(u, t2) follows shorten(u, t1) with no other operation in
\* between, it returns the same code, the row of that code then expires at
\* (the time of the second call) + t2, and the rows holding u have not
\* become more.
C3_Reshorten ==
    [][ \A p \in Procs :
          ( /\ last'.op = "shorten" /\ last'.err = "" /\ last'.who = p
            /\ pc[p] # "idle"
            /\ prior # NULL /\ prior[1].who = p /\ prior[1].url = last'.arg )
          => /\ last'.ret = prior[1].code
             /\ WithCode(table', last'.ret) # {}
             /\ \A i \in WithCode(table', last'.ret) :
                  table'[i].expires_at = Some(now + ttl[p])
             /\ CountUrl(table', last'.arg) <= CountUrl(table, last'.arg) ]_vars

\* C4: a request whose INSERT the uniqueness constraint rejected does not
\* return the rejected code: every code shorten returns is the code of a row
\* whose original_url is the request's URL.
C4_RejectedInsertRetried ==
    Returned =>
        /\ << "insert_url", Duplicate >> \notin last.log
        /\ \E i \in WithCode(table, last.ret) : table[i].original_url = last.arg

\* C5: the shortening flow keeps at most one row per original_url, and a
\* request for a URL returns the code of that row.
C5_OneRowPerUrl ==
    /\ \A u \in Urls : CountUrl(table, u) <= 1
    /\ Returned => \A i \in WithUrl(table, last.arg) : table[i].short_code = last.ret

\* C6: redirect_to_original never redirects to the original_url of a row
\* that is deactivated or whose expires_at is in the past.
C6_NoRedirectWhenDeadOrExpired ==
    (last.op = "redirect_to_original" /\ last.ret.status = 302) =>
        \A i \in WithCode(table, last.arg) :
            /\ table[i].is_active
            /\ table[i].expires_at # NULL => table[i].expires_at[1] >= now

\* C7: a store failure in a store operation shorten uses is surfaced to the
\* caller: shorten returns no code when a statement of the call failed, and
\* none whose row was not written or extended.
C7_StoreFailureSurfaced ==
    Returned =>
        /\ \A e \in last.log : e[2] # Unavailable
        /\ \E i \in WithCode(table, last.ret) : table[i].original_url = last.arg

\* C8: insert_url with a short_code some row holds leaves the table as it
\* was and returns a value that is neither a row id nor the value it returns
\* when the store is unavailable.
C8_DuplicateDistinguished ==
    [][ ( /\ last'.op = "insert_url"
          /\ << "insert_url", Duplicate >> \in last'.log )
        => /\ table' = table
           /\ last'.ret < 1
           /\ \A u \in Urls :
                last'.ret # insert_url(table, last'.arg, u, NULL, TRUE, FALSE).ret ]_vars

\* C9: shorten with an empty or absent URL raises ValueError before any
\* store operation is issued: nothing is called or logged and the table is
\* as it was.
C9_EmptyUrlRejected ==
    [][ ( last'.op = "shorten" /\ last'.arg \in { "", None } )
        => /\ last'.err = "ValueError"
           /\ last'.calls = {}
           /\ last'.log = {}
           /\ table' = table ]_vars

\* C9, its case: shorten of the empty string has just raised, the table
\* holding a row.
C9_Witness ==
    /\ last.op = "shorten"
    /\ last.arg = ""
    /\ last.err = "ValueError"
    /\ Len(table) > 0

\* C10: the loop of generate_unique_short_code terminates: a request that is
\* in the loop leaves it (by returning a code or by failing).
C10_LoopTerminates ==
    \A p \in Procs : (pc[p] = "exists") ~> (pc[p] # "exists")

\* C11: deactivate_url(code) on a code a row holds leaves that row with
\* is_active = false and its original_url and expires_at as they were, and
\* get_by_short_code(code) right after it returns that row, inactive:
\* fetch_url returns the stored row whatever its is_active and expires_at.
C11_DeactivatedRowStillReturned ==
    [][ /\ ( last'.op = "deactivate_url" /\ WithCode(table, last'.arg) # {} )
           => \A i \in WithCode(table, last'.arg) :
                table'[i] = [table[i] EXCEPT !.is_active = FALSE]
        /\ ( /\ last.op = "deactivate_url" /\ WithCode(table, last.arg) # {}
             /\ last'.op = "get_by_short_code" /\ last'.arg = last.arg )
           => /\ last'.ret # NULL
              /\ \E i \in WithCode(table, last.arg) :
                   last'.ret[1] = UrlDetails([table[i] EXCEPT !.is_active = FALSE]) ]_vars

\* C12: extend_url(code, e) and deactivate_url(code) return false and leave
\* the table as it was when no row holds the code; when a row holds it they
\* return true and change that row's expires_at (extend) or is_active
\* (deactivate) and nothing else, in that row or in any other.
C12_ExtendDeactivateFrame ==
    [][ \A op \in { "extend_url", "deactivate_url" } :
          last'.op = op =>
            LET hit == WithCode(table, last'.arg)
                column == IF op = "extend_url" THEN "expires_at" ELSE "is_active"
            IN  IF hit = {}
                THEN last'.ret = FALSE /\ table' = table
                ELSE /\ last'.ret = TRUE
                     /\ DOMAIN table' = DOMAIN table
                     /\ \A i \in DOMAIN table :
                          IF i \in hit
                          THEN /\ [table'[i] EXCEPT ![column] = table[i][column]] = table[i]
                               /\ IF op = "extend_url"
                                  THEN \E t \in Ttls : table'[i].expires_at = Some(now + t)
                                  ELSE table'[i].is_active = FALSE
                          ELSE table'[i] = table[i] ]_vars

\* C13: get_by_short_code of a code no row holds returns None, raises no
\* exception and leaves the table as it was.
C13_NotFound ==
    [][ ( last'.op = "get_by_short_code" /\ WithCode(table, last'.arg) = {} )
        => /\ last'.ret = NULL
           /\ last'.err = ""
           /\ table' = table ]_vars

\* C13, its case: get_by_short_code has just returned None for a code no
\* row holds, the table holding a row of another code, the SELECT having run.
C13_Witness ==
    /\ last.op = "get_by_short_code"
    /\ last.ret = NULL
    /\ last.log = {}
    /\ table # << >>
    /\ WithCode(table, last.arg) = {}

\* C14: rows are soft state: no step deletes a row, changes the short_code
\* (or the id) of a row, or turns is_active of a row from false to true.
C14_SoftState ==
    [][ /\ Len(table') >= Len(table)
        /\ \A i \in DOMAIN table :
             /\ table'[i].short_code = table[i].short_code
             /\ table'[i].id = table[i].id
             /\ ~table[i].is_active => ~table'[i].is_active ]_vars

\* C14, its case: a deactivated row has just been written to again (its URL
\* updated or its expiry extended, directly or by shorten) and another row
\* is stored beside it.
C14_Witness ==
    /\ Len(table) = 2
    /\ \/ /\ last.op \in { "update_url", "extend_url" }
          /\ last.ret = TRUE
          /\ \E i \in WithCode(table, last.arg) : ~table[i].is_active
       \/ /\ last.op = "shorten"
          /\ "extend_url" \in last.calls
          /\ \E i \in WithCode(table, last.ret) : ~table[i].is_active

\* C15: when a row holds the URL as shorten is called, shorten looks the URL
\* up and then calls extend_url and nothing else (no short_code_exists, no
\* insert_url), and it returns the code of a row that held the URL.
C15_ExistingUrlOnlyExtends ==
    [][ \A p \in Procs :
          /\ ( pc[p] = "idle" /\ pc'[p] # "idle" /\ WithUrl(table, url'[p]) # {} )
             => /\ pc'[p] = "extend"
                /\ calls'[p] = { "fetch_short_code" }
                /\ \E i \in WithUrl(table, url'[p]) :
                     short_code'[p] = table[i].short_code
          /\ ( pc[p] = "extend" /\ pc'[p] = "idle" )
             => /\ last'.op = "shorten"
                /\ last'.calls = { "fetch_short_code", "extend_url" }
                /\ last'.ret = short_code[p] ]_vars

\* C16: when short_code_exists answers true once, for the first candidate,
\* and then false, generate_unique_short_code has drawn exactly two
\* candidates (two checks, one retry), the second candidate differs from the
\* first, and the function returns the second.
C16_OneRetryChangedCandidate ==
    [][ \A p \in Procs :
          ( pc[p] = "exists" /\ pc'[p] = "insert" /\ checked'[p] = << TRUE, FALSE >> )
          => /\ Len(drawn'[p]) = 2
             /\ drawn'[p][2] # drawn'[p][1]
             /\ short_code'[p] = drawn'[p][2] ]_vars

\* C17: a shorten(u, ttl) call whose lookup found no row of u adds exactly
\* one row: a generated 5-character code, original_url = u (the URL the
\* caller gave, without the filler), expires_at = now + ttl, is_active =
\* true; every row stored before is as it was, and the code is returned.
C17_NewRowFrame ==
    [][ \A p \in Procs :
          ( /\ pc[p] = "insert" /\ pc'[p] = "idle"
            /\ << "fetch_short_code", Unavailable >> \notin log[p] )
          => /\ table' = Append(table, Row(Len(table) + 1, short_code[p], url[p],
                                           Some(now + ttl[p]), TRUE))
             /\ short_code[p] \in Codes /\ Len(short_code[p]) = CodeLen
             /\ url[p] \in Urls
             /\ last'.ret = short_code[p] ]_vars

\* C18: with no concurrent writer and no store error, the code
\* generate_unique_short_code returns is the candidate of its last
\* short_code_exists call, which answered false; no row holds it at the
\* return, and the insert_url that follows adds its row.
C18_ReturnedCandidateChecked ==
    [][ \A p \in Procs :
          /\ ( pc[p] = "exists" /\ pc'[p] = "insert" )
             => /\ "short_code_exists" \in calls'[p]
                /\ checked'[p] # << >>
                /\ ~short_code_exists(table, short_code[p], TRUE).ret
                /\ short_code'[p] = short_code[p]
                /\ WithCode(table', short_code'[p]) = {}
          /\ ( pc[p] = "insert" /\ pc'[p] = "idle" )
             => /\ last'.log = {}
                /\ last'.ret = short_code[p]
                /\ table' = Append(table, Row(Len(table) + 1, short_code[p], url[p],
                                              Some(now + ttl[p]), TRUE)) ]_vars

\* C18, its case: a call whose first candidate collided has returned from
\* the loop with its second candidate and stands before its INSERT.
C18_Witness ==
    /\ pc[1] = "insert"
    /\ checked[1] = << TRUE, FALSE >>
    /\ Len(drawn[1]) = 2
    /\ WithCode(table, short_code[1]) = {}

\* C19: no step of shorten changes is_active of a row; a shorten call for a
\* URL whose rows are all deactivated takes the code of such a row, changes
\* nothing but expires_at of the rows of that code, adds no row, and
\* returns that code.
C19_ShortenKeepsInactive ==
    [][ \A p \in Procs :
          /\ pc[p] # pc'[p]
             => /\ Len(table') >= Len(table)
                /\ \A i \in DOMAIN table : table'[i].is_active = table[i].is_active
          /\ ( /\ pc[p] = "idle" /\ pc'[p] # "idle"
               /\ WithUrl(table, url'[p]) # {}
               /\ \A i \in WithUrl(table, url'[p]) : ~table[i].is_active )
             => /\ pc'[p] = "extend"
                /\ \E i \in WithUrl(table, url'[p]) :
                     short_code'[p] = table[i].short_code
          /\ ( pc[p] = "extend" /\ pc'[p] = "idle" )
             => /\ last'.ret = short_code[p]
                /\ Len(table') = Len(table)
                /\ \A i \in DOMAIN table :
                     [table'[i] EXCEPT !.expires_at = table[i].expires_at] = table[i] ]_vars

====
